---- MODULE Spec2Model ----
(***************************************************************************)
(* A model of vite-plugin-zip (src/src/index.ts): option resolution in     *)
(* vitePluginZip, the closeBundle handler, the archive assembly zipOutput  *)
(* with its fast path and general path, the events of the archive engine   *)
(* and of the destination stream, and formatFileSize.                      *)
(*                                                                         *)
(* Paths are sequences of path segments (<<"proj","dist","app.js">> is     *)
(* /proj/dist/app.js); glob patterns are sequences of segment patterns     *)
(* (one segment pattern per path segment, a double star spanning any       *)
(* number of segments).                                                    *)
(***************************************************************************)
EXTENDS Integers, Sequences, FiniteSets, TLC

(***************************************************************************)
(* Bounds of the model.                                                    *)
(***************************************************************************)
\* number of closeBundle invocations on one plugin instance
MaxBuilds == 2

\* number of archive-engine events (warnings, errors) delivered to one assembly
MaxEvents == 1

(***************************************************************************)
(* node:path on segment sequences.                                         *)
(***************************************************************************)
RECURSIVE Normalize(_, _)
\* path.normalize: "." is dropped, ".." removes the segment before it
Normalize(done, rest) ==
  IF rest = <<>> THEN done
  ELSE IF Head(rest) = "." THEN Normalize(done, Tail(rest))
  ELSE IF Head(rest) = ".." /\ done # <<>> /\ done[Len(done)] # ".."
       THEN Normalize(SubSeq(done, 1, Len(done) - 1), Tail(rest))
  ELSE Normalize(Append(done, Head(rest)), Tail(rest))

\* path.join(a, b)
PathJoin(a, b) == Normalize(<<>>, a \o b)

RECURSIVE CommonLen(_, _)
\* length of the longest common prefix of two paths
CommonLen(a, b) ==
  IF a = <<>> \/ b = <<>> \/ Head(a) # Head(b) THEN 0
  ELSE 1 + CommonLen(Tail(a), Tail(b))

\* path.relative(from, to): one ".." per segment of from below the common
\* prefix, then the rest of to
PathRelative(from, to) ==
  LET c == CommonLen(from, to)
  IN  [i \in 1..(Len(from) - c) |-> ".."] \o SubSeq(to, c + 1, Len(to))

\* whether path p lies strictly below directory d
IsUnder(d, p) == Len(p) > Len(d) /\ SubSeq(p, 1, Len(d)) = d

(***************************************************************************)
(* Glob matching (the contract of fs.globSync as zipOutput uses it).       *)
(***************************************************************************)
\* the extension of a file name of the model's universe
Ext(s) ==
  CASE s = "index.html" -> "html"
    [] s = "app.js"     -> "js"
    [] s = "main.js"    -> "js"
    [] s = "logo.svg"   -> "svg"
    [] s = "dist.zip"   -> "zip"
    [] s = "site.zip"   -> "zip"
    [] OTHER            -> ""

\* one pattern segment against one path segment
SegMatch(p, s) ==
  \/ p = "*"
  \/ p = s
  \/ p = "*.svg" /\ Ext(s) = "svg"
  \/ p = "*.js"  /\ Ext(s) = "js"
  \/ p = "*.zip" /\ Ext(s) = "zip"

RECURSIVE GlobMatch(_, _)
\* a pattern against a path relative to cwd; "**" spans zero or more segments
GlobMatch(pat, path) ==
  IF pat = <<>> THEN path = <<>>
  ELSE IF Head(pat) = "**"
       THEN \/ GlobMatch(Tail(pat), path)
            \/ path # <<>> /\ GlobMatch(pat, Tail(path))
  ELSE /\ path # <<>>
       /\ SegMatch(Head(pat), Head(path))
       /\ GlobMatch(Tail(pat), Tail(path))

\* a path against a list of patterns: any one of them
MatchesAny(pats, path) == \E i \in 1..Len(pats) : GlobMatch(pats[i], path)

(***************************************************************************)
(* The file tree and the build contexts.                                   *)
(***************************************************************************)
\* viteConfig.root
Root == <<"proj">>

\* the values of viteConfig.build.outDir
OutDirs == {"dist", "build"}

\* a directory entry of the file tree
Entry(p, k) == [path |-> Root \o p, kind |-> k]

\* every entry the file tree can hold, in the order enumeration yields them
Universe ==
  << Entry(<<"dist">>, "dir"),
     Entry(<<"dist", "index.html">>, "file"),
     Entry(<<"dist", "app.js">>, "file"),
     Entry(<<"dist", "assets">>, "dir"),
     Entry(<<"dist", "assets", "logo.svg">>, "file"),
     Entry(<<"dist", "lnk">>, "other"),
     Entry(<<"dist", "dist.zip">>, "file"),
     Entry(<<"dist", "site.zip">>, "file"),
     Entry(<<"build">>, "dir"),
     Entry(<<"build", "main.js">>, "file"),
     Entry(<<"build", "dist.zip">>, "file"),
     Entry(<<"build", "site.zip">>, "file") >>

\* the build output before the first build
InitialTree ==
  { Entry(<<"dist">>, "dir"),
    Entry(<<"dist", "index.html">>, "file"),
    Entry(<<"dist", "app.js">>, "file"),
    Entry(<<"dist", "assets">>, "dir"),
    Entry(<<"dist", "assets", "logo.svg">>, "file"),
    Entry(<<"dist", "lnk">>, "other"),
    Entry(<<"build">>, "dir"),
    Entry(<<"build", "main.js">>, "file") }

\* the plain files of a tree below a directory
FilesUnder(tree, dir) == { e \in tree : e.kind = "file" /\ IsUnder(dir, e.path) }

\* fs.Dirent of an entry: name, parentPath and the file-type predicate
Dirent(e) ==
  [name |-> e.path[Len(e.path)],
   parentPath |-> SubSeq(e.path, 1, Len(e.path) - 1),
   kind |-> e.kind]

\* dirEnt.isFile()
IsFile(d) == d.kind = "file"

\* fs.globSync(include, {cwd, exclude, withFileTypes: true}): the entries
\* below cwd whose path relative to cwd matches an include pattern and no
\* exclude pattern
GlobSync(includePats, cwd, excludeArr, tree) ==
  LET sel(e) == /\ e \in tree
                /\ IsUnder(cwd, e.path)
                /\ MatchesAny(includePats, PathRelative(cwd, e.path))
                /\ ~MatchesAny(excludeArr, PathRelative(cwd, e.path))
      hits == SelectSeq(Universe, sel)
  IN  [i \in 1..Len(hits) |-> Dirent(hits[i])]

(***************************************************************************)
(* Options (UserOptions, ResolvedOptions) and their resolution.            *)
(***************************************************************************)
\* an omitted field of UserOptions
Absent == [set |-> FALSE, v |-> "undefined"]

\* a supplied field of UserOptions
Given(x) == [set |-> TRUE, v |-> x]

\* a glob option given as one pattern string
Str(pat) == [arr |-> FALSE, pats |-> <<pat>>]

\* a glob option given as a list of patterns
Arr(pats) == [arr |-> TRUE, pats |-> pats]

\* the pattern "dist/**/*"
DistPattern == <<"dist", "**", "*">>

\* a resolution that ignores what the caller supplied
CoalesceDefault(opt, default) == default

\* the ?? operator
Coalesce(opt, default) == IF opt.set THEN opt.v ELSE default

\* the defaults of vitePluginZip
DefaultInclude == Str(DistPattern)
DefaultZipName == "dist.zip"
DefaultExclude == Arr(<<>>)
DefaultSilent == FALSE
DefaultHandleFile == "null"
DefaultBeforeClose == "noop"

\* pluginOptions as vitePluginZip builds it from userOptions
ResolveOptions(u) ==
  [include     |-> Coalesce(u.include, DefaultInclude),
   zipName     |-> Coalesce(u.zipName, DefaultZipName),
   exclude     |-> Coalesce(u.exclude, DefaultExclude),
   silent      |-> Coalesce(u.silent, DefaultSilent),
   handleFile  |-> Coalesce(u.handleFile, DefaultHandleFile),
   beforeClose |-> Coalesce(u.beforeClose, DefaultBeforeClose)]

\* the include values the model draws from
IncludeChoices ==
  { Absent,
    Given(Str(DistPattern)),
    Given(Arr(<<DistPattern>>)),
    Given(Arr(<< <<"dist", "*.js">>, <<"**", "*.js">> >>)) }

\* the exclude values the model draws from
ExcludeChoices ==
  { Absent,
    Given(Str(<<"dist", "**", "*.svg">>)),
    Given(Arr(<< <<"dist", "**", "*.svg">>, <<"**", "app.js">> >>)) }

\* every option object over those values
AllUserOptions ==
  [include     : IncludeChoices,
   exclude     : ExcludeChoices,
   zipName     : {Absent, Given("site.zip")},
   silent      : {Absent, Given(TRUE)},
   handleFile  : {Absent, Given("mixed"), Given("throwing"), Given("refused")},
   beforeClose : {Absent, Given("user")}]

\* the option objects the model draws from: zipName and silent vary where
\* no exclude and no hook is given
UserOptionChoices ==
  { u \in AllUserOptions :
      (u.zipName.set \/ u.silent.set) =>
        (~u.exclude.set /\ ~u.handleFile.set /\ ~u.beforeClose.set) }

\* a fast-path test that does not look at handleFile
IsFastPathAnyHook(o) ==
  /\ o.include = Str(DistPattern)
  /\ o.exclude.arr
  /\ Len(o.exclude.pats) = 0

\* the fast-path test of zipOutput
IsFastPath(o) ==
  /\ o.include = Str(DistPattern)
  /\ o.exclude.arr
  /\ Len(o.exclude.pats) = 0
  /\ o.handleFile = "null"

\* an excludeArr that drops an exclude given as a single pattern
ExcludeArrOfListOnly(o) == IF o.exclude.arr THEN o.exclude.pats ELSE <<>>

\* excludeArr of zipOutput: a single pattern is wrapped into a list
ExcludeArr(o) == IF o.exclude.arr THEN o.exclude.pats ELSE <<o.exclude.pats[1]>>

(***************************************************************************)
(* formatFileSize.  A byte count is held in base-1024 limbs, least         *)
(* significant first, with the number of divisions by 1024 done so far:    *)
(* [limbs |-> L, shift |-> k] is the number                                *)
(*   L[1]*1024^(0-k) + L[2]*1024^(1-k) + ... + L[6]*1024^(5-k),            *)
(* which is what k floating-point divisions by 1024 leave (a division by   *)
(* a power of two is exact).                                               *)
(***************************************************************************)
\* the factor between two units
Base == 1024

\* limbs of a byte count
NumLimbs(sz) == Len(sz.limbs)

\* units of formatFileSize
Units == <<"B", "KB", "MB", "GB", "TB">>

\* a byte count below 1024^3 as a size
SizeOf(n) ==
  [limbs |-> <<n % Base, (n \div Base) % Base, n \div (Base * Base), 0, 0, 0>>,
   shift |-> 0]

\* size >= 1024
AtLeastBase(sz) == \E i \in (sz.shift + 2)..NumLimbs(sz) : sz.limbs[i] # 0

\* size /= 1024
DivideByBase(sz) == [sz EXCEPT !.shift = @ + 1]

\* a loop condition with size > 1024 in place of size >= 1024
LoopConditionStrict(sz, index) ==
  /\ index < Len(Units) - 1
  /\ \/ \E i \in (sz.shift + 3)..NumLimbs(sz) : sz.limbs[i] # 0
     \/ sz.limbs[sz.shift + 2] > 1
     \/ /\ sz.limbs[sz.shift + 2] = 1
        /\ \E i \in 1..(sz.shift + 1) : sz.limbs[i] # 0

\* the loop condition of formatFileSize
LoopCondition(sz, index) == AtLeastBase(sz) /\ index < Len(Units) - 1

RECURSIVE WholePart(_, _)
\* the integer part of a size, from limb i upwards
WholePart(sz, i) ==
  IF i > NumLimbs(sz) THEN 0 ELSE sz.limbs[i] + Base * WholePart(sz, i + 1)

RECURSIVE TimesHundred(_, _, _)
\* the fractional limbs 1..shift times 100: <<integer carry, top limb left>>
TimesHundred(sz, i, carry) ==
  LET t == sz.limbs[i] * 100 + carry
  IN  IF i = sz.shift THEN <<t \div Base, t % Base>>
      ELSE TimesHundred(sz, i + 1, t \div Base)

\* size.toFixed(2): the value rounded to hundredths, a tie going up
ToFixed2(sz) ==
  LET whole == WholePart(sz, sz.shift + 1)
      th == IF sz.shift = 0 THEN <<0, 0>> ELSE TimesHundred(sz, 1, 0)
      cents == th[1] + (IF 2 * th[2] >= Base THEN 1 ELSE 0)
  IN  IF cents = 100 THEN [whole |-> whole + 1, cents |-> 0]
      ELSE [whole |-> whole, cents |-> cents]

\* the string formatFileSize returns: "<whole>.<cents> <unit>"
Formatted(sz, index) ==
  [whole |-> ToFixed2(sz).whole, cents |-> ToFixed2(sz).cents,
   unit |-> Units[index + 1]]

RECURSIVE FormatLoop(_, _)
\* the while loop of formatFileSize run to its end, then the return
FormatLoop(sz, index) ==
  IF LoopCondition(sz, index) THEN FormatLoop(DivideByBase(sz), index + 1)
  ELSE Formatted(sz, index)

\* formatFileSize(size)
FormatFileSize(sz) == FormatLoop(sz, 0)

(***************************************************************************)
(* The state of one plugin instance and of the assembly in flight.         *)
(***************************************************************************)
VARIABLES
  userOptions,    \* the object passed to vitePluginZip
  pluginOptions,  \* the resolved options
  config,         \* the build context stored by configResolved
  fs,             \* the file tree
  builds,         \* closeBundle invocations so far
  hErr,           \* the error argument of the current invocation
  hState,         \* the promise of closeBundle.handler
  hReason,        \* what that promise rejected with
  pc,             \* the position of zipOutput's synchronous body
  thrown,         \* what the body threw
  deferred,       \* Promise.withResolvers(): state and rejection reason
  output,         \* the destination write stream
  archive,        \* the archive engine: created, queue, finalize calls
  allFiles,       \* the enumeration result
  idx,            \* the loop position in allFiles
  trace,          \* the calls made in the current invocation, in order
  logs,           \* console.log output of the current invocation
  sealed,         \* the archive the current assembly wrote
  atCall,         \* the file tree and outDir when the current invocation began
  events,         \* archive-engine events delivered in this assembly
  fIn, fSize, fIndex, fPc, fOut, fDivs  \* a run of formatFileSize

pluginVars ==
  <<userOptions, pluginOptions, config, fs, builds, hErr, hState, hReason, pc,
    thrown, deferred, output, archive, allFiles, idx, trace, logs, sealed,
    atCall, events>>

fmtVars == <<fIn, fSize, fIndex, fPc, fOut, fDivs>>

vars == <<pluginVars, fmtVars>>

\* a call recorded in the trace
Call(op, arg) == [op |-> op, arg |-> arg]

\* an operation queued on the archive engine
Op(kind, src, name, by) == [kind |-> kind, src |-> src, name |-> name, by |-> by]

NoConfig == [set |-> FALSE, outDir |-> "undefined"]
NoOutput == [state |-> "none", path |-> <<>>]
NoDeferred == [state |-> "none", reason |-> "none"]
NoArchive == [created |-> FALSE, queue |-> <<>>, finalized |-> 0]
NoSealed == [path |-> <<>>, names |-> {}]

\* cwd and distDir of zipOutput
Cwd == Root
DistDir == PathJoin(Cwd, <<config.outDir>>)

\* ZIP_OUT_FILE of zipOutput
ZipOutFile == PathJoin(DistDir, <<pluginOptions.zipName>>)

\* the formatFileSize variables while no run of it is modelled
FmtIdle ==
  /\ fIn = <<0, 0, 0, 0, 0, 0>>
  /\ fSize = [limbs |-> <<0, 0, 0, 0, 0, 0>>, shift |-> 0]
  /\ fIndex = 0
  /\ fPc = "idle"
  /\ fOut = [whole |-> 0, cents |-> 0, unit |-> "none"]
  /\ fDivs = 0

\* the plugin right after vitePluginZip(userOptions) returned
PluginInit ==
  /\ userOptions \in UserOptionChoices
  /\ pluginOptions = ResolveOptions(userOptions)
  /\ config = NoConfig
  /\ fs = InitialTree
  /\ builds = 0
  /\ hErr = "none"
  /\ hState = "idle"
  /\ hReason = "none"
  /\ pc = "none"
  /\ thrown = "none"
  /\ deferred = NoDeferred
  /\ output = NoOutput
  /\ archive = NoArchive
  /\ allFiles = <<>>
  /\ idx = 0
  /\ trace = <<>>
  /\ logs = <<>>
  /\ sealed = NoSealed
  /\ atCall = [fs |-> InitialTree, outDir |-> "undefined"]
  /\ events = 0

Init == PluginInit /\ FmtIdle

(***************************************************************************)
(* The pieces of closeBundle.handler and zipOutput.                        *)
(***************************************************************************)
\* the error values the host passes to closeBundle.handler
NoError == "none"
HostErrors == {NoError, "BuildError"}

\* a handler that goes on to the assembly whatever the error value
HandlerSkipsNever(error) == FALSE

\* if (error) return;
HandlerSkips(error) == error # NoError

\* a fast path that adds <root>/dist whatever the output directory is
FastPathOpOfDist(distDir) ==
  Op("directory", PathJoin(Root, <<"dist">>), <<"dist">>, "zipOutput")

\* archive.directory(distDir, "dist") of the fast path
FastPathOp(distDir) == Op("directory", distDir, <<"dist">>, "zipOutput")

\* filePath of the loop body
FilePath(d) == PathJoin(d.parentPath, <<d.name>>)

\* a default insertion named by the file's base name alone
DefaultEntryBaseName(cwd, d) == <<d.name>>

\* relFilePath of the loop body, the name of a default insertion
DefaultEntryName(cwd, d) == PathRelative(cwd, FilePath(d))

\* archive.file(filePath, { name: relFilePath })
DefaultOp(cwd, d) == Op("file", FilePath(d), DefaultEntryName(cwd, d), "zipOutput")

\* a loop body that inserts by default whatever the hook returned
InsertsByDefaultAlways(handled) == TRUE

\* whether the loop body goes on to the default insertion after the hook
\* returned handled
InsertsByDefault(handled) == ~handled

\* a loop body without the isFile test
ProcessesAll(d) == TRUE

\* whether the loop body looks at an entry at all
Processes(d) == IsFile(d)

\* a body that seals the archive right after the files
AfterFilesFinalize == "finalize"

\* where the body goes once the files are processed
AfterFiles == "beforeClose"

\* where the body goes once beforeClose returned
AfterBeforeClose == "finalize"

\* the loop position after entry i of n
LoopPc(i, n) == IF i > n THEN AfterFiles ELSE "loop"

\* a warning handler that rejects on every warning
WarningRejectsAlways(code) == TRUE

\* the warning handler: everything but ENOENT rejects
WarningRejects(code) == code # "ENOENT"

\* what a user-supplied handleFile does with an entry: "mixed" inserts html
\* files under a custom name and leaves them to default handling, inserts js
\* files under a custom name and reports them handled, reports svg files
\* handled without inserting them, and leaves everything else alone;
\* "throwing" throws on svg files; "refused" makes on js files an insertion
\* the engine refuses (an entry without a source path) and leaves the file
\* to default handling
HandleFileOutcome(hook, d) ==
  CASE hook = "mixed" /\ Ext(d.name) = "html" -> "insertFalse"
    [] hook = "mixed" /\ Ext(d.name) = "js"   -> "insertTrue"
    [] hook = "mixed" /\ Ext(d.name) = "svg"  -> "true"
    [] hook = "throwing" /\ Ext(d.name) = "svg" -> "throw"
    [] hook = "refused" /\ Ext(d.name) = "js"    -> "refused"
    [] OTHER -> "false"

\* what a user-supplied beforeClose may do
BeforeCloseOutcomes == {"nothing", "append", "throw"}

\* the entry names an operation of the queue puts into the archive
NamesOf(op, tree) ==
  IF op.kind = "directory"
  THEN { op.name \o PathRelative(op.src, e.path) : e \in FilesUnder(tree, op.src) }
  ELSE { op.name }

\* the entry names of the sealed archive
SealedNames(queue, tree) == UNION { NamesOf(queue[i], tree) : i \in 1..Len(queue) }

\* reject(err) on the deferred result: only a pending promise changes
Rejected(d, err) ==
  IF d.state = "pending" THEN [state |-> "rejected", reason |-> err] ELSE d

\* resolve(undefined) on the deferred result
Resolved(d) ==
  IF d.state = "pending" THEN [state |-> "resolved", reason |-> "none"] ELSE d

\* the error the engine emits, while the call is still running, for an
\* insertion it refuses; the error handler of zipOutput receives it
RefusedEntry == "FILEFILEPATHREQUIRED"

\* a throw inside an async function that is lost instead of rejecting
AsyncThrowLost(err) == [state |-> "resolved", reason |-> "none"]

\* a throw inside the async functions zipOutput and closeBundle.handler: the
\* promise they returned rejects with what was thrown
AsyncThrow(err) == [state |-> "rejected", reason |-> err]

\* archive.pointer() at close: the bytes the engine wrote, taken as 512 per
\* entry and 22 for the end record
Pointer(names) == 22 + 512 * Cardinality(names)

(***************************************************************************)
(* The host.                                                               *)
(***************************************************************************)
\* configResolved(_config): the host calls it ahead of a build, never while
\* the handler's promise is pending
ConfigResolved(od) ==
  /\ hState # "pending"
  /\ builds < MaxBuilds
  /\ config' = [set |-> TRUE, outDir |-> od]
  /\ UNCHANGED <<userOptions, pluginOptions, fs, builds, hErr, hState, hReason,
                 pc, thrown, deferred, output, archive, allFiles, idx, trace,
                 logs, sealed, atCall, events>>
  /\ UNCHANGED fmtVars

\* closeBundle.handler(error) up to its first suspension
CloseBundle(error) ==
  /\ builds < MaxBuilds
  /\ hState # "pending"
  /\ builds' = builds + 1
  /\ hErr' = error
  /\ atCall' = [fs |-> fs, outDir |-> config.outDir]
  /\ hReason' = "none"
  /\ thrown' = "none"
  /\ deferred' = NoDeferred
  /\ output' = NoOutput
  /\ archive' = NoArchive
  /\ allFiles' = <<>>
  /\ idx' = 0
  /\ logs' = <<>>
  /\ events' = 0
  /\ sealed' = NoSealed
  /\ IF HandlerSkips(error)
     THEN /\ hState' = "resolved"
          /\ pc' = "none"
          /\ trace' = <<>>
     ELSE /\ hState' = "pending"
          /\ pc' = "setup"
          /\ trace' = <<Call("zipOutput", <<>>)>>
  /\ UNCHANGED <<userOptions, pluginOptions, config, fs>>
  /\ UNCHANGED fmtVars

(***************************************************************************)
(* zipOutput, its synchronous body.                                        *)
(***************************************************************************)
\* the deferred result, the destination stream, the engine and its handlers
ZipSetup ==
  /\ pc = "setup"
  /\ deferred' = [state |-> "pending", reason |-> "none"]
  /\ IF config.set
     THEN /\ output' = [state |-> "opening", path |-> ZipOutFile]
          /\ archive' = [created |-> TRUE, queue |-> <<>>, finalized |-> 0]
          /\ trace' = trace \o <<Call("createWriteStream", ZipOutFile),
                                 Call("archiver", <<>>)>>
          /\ pc' = "branch"
          /\ UNCHANGED thrown
     ELSE /\ thrown' = "TypeError"
          /\ pc' = "threw"
          /\ UNCHANGED <<output, archive, trace>>
  /\ UNCHANGED <<userOptions, pluginOptions, config, fs, builds, hErr, hState,
                 hReason, allFiles, idx, logs, sealed, atCall, events>>
  /\ UNCHANGED fmtVars

\* the fast path: the whole output directory in one call
FastPath ==
  /\ pc = "branch"
  /\ IsFastPath(pluginOptions)
  /\ archive' = [archive EXCEPT !.queue = Append(@, FastPathOp(DistDir))]
  /\ trace' = Append(trace, Call("directory", DistDir))
  /\ pc' = AfterFiles
  /\ UNCHANGED <<userOptions, pluginOptions, config, fs, builds, hErr, hState,
                 hReason, thrown, deferred, output, allFiles, idx, logs, sealed,
                 atCall, events>>
  /\ UNCHANGED fmtVars

\* the general path: fs.globSync returns
Enumerate ==
  /\ pc = "branch"
  /\ ~IsFastPath(pluginOptions)
  /\ allFiles' = GlobSync(pluginOptions.include.pats, Cwd,
                          ExcludeArr(pluginOptions), fs)
  /\ idx' = 1
  /\ trace' = Append(trace, Call("globSync", <<>>))
  /\ pc' = LoopPc(1, Len(allFiles'))
  /\ UNCHANGED <<userOptions, pluginOptions, config, fs, builds, hErr, hState,
                 hReason, thrown, deferred, output, archive, logs, sealed,
                 atCall, events>>
  /\ UNCHANGED fmtVars

\* the general path: fs.globSync throws
EnumerateThrows ==
  /\ pc = "branch"
  /\ ~IsFastPath(pluginOptions)
  /\ trace' = Append(trace, Call("globSync", <<>>))
  /\ thrown' = "GlobError"
  /\ pc' = "threw"
  /\ UNCHANGED <<userOptions, pluginOptions, config, fs, builds, hErr, hState,
                 hReason, deferred, output, archive, allFiles, idx, logs,
                 sealed, atCall, events>>
  /\ UNCHANGED fmtVars

\* one iteration of the loop on an entry the body does not look at
SkipEntry ==
  /\ pc = "loop"
  /\ ~Processes(allFiles[idx])
  /\ idx' = idx + 1
  /\ pc' = LoopPc(idx + 1, Len(allFiles))
  /\ UNCHANGED <<userOptions, pluginOptions, config, fs, builds, hErr, hState,
                 hReason, thrown, deferred, output, archive, allFiles, trace,
                 logs, sealed, atCall, events>>
  /\ UNCHANGED fmtVars

\* one iteration of the loop with no handleFile configured
InsertEntry ==
  /\ pc = "loop"
  /\ Processes(allFiles[idx])
  /\ pluginOptions.handleFile = "null"
  /\ archive' = [archive EXCEPT !.queue = Append(@, DefaultOp(Cwd, allFiles[idx]))]
  /\ trace' = Append(trace, Call("file", DefaultEntryName(Cwd, allFiles[idx])))
  /\ idx' = idx + 1
  /\ pc' = LoopPc(idx + 1, Len(allFiles))
  /\ UNCHANGED <<userOptions, pluginOptions, config, fs, builds, hErr, hState,
                 hReason, thrown, deferred, output, allFiles, logs, sealed,
                 atCall, events>>
  /\ UNCHANGED fmtVars

\* one iteration of the loop with handleFile configured: the hook is called,
\* may insert an entry of its own, and returns handled or throws
HandleEntry ==
  /\ pc = "loop"
  /\ Processes(allFiles[idx])
  /\ pluginOptions.handleFile # "null"
  /\ LET d == allFiles[idx]
         outcome == HandleFileOutcome(pluginOptions.handleFile, d)
         handled == outcome \in {"true", "insertTrue"}
         hookOps == IF outcome \in {"insertTrue", "insertFalse"}
                    THEN <<Op("file", FilePath(d), <<"custom", d.name>>, "handleFile")>>
                    ELSE <<>>
         hookCalls == <<Call("handleFile", FilePath(d))>> \o
                      [i \in 1..Len(hookOps) |-> Call("hookFile", hookOps[i].name)] \o
                      (IF outcome = "refused"
                       THEN <<Call("reject", <<RefusedEntry>>)>> ELSE <<>>)
     IN  IF outcome = "throw"
         THEN /\ thrown' = "HookError"
              /\ pc' = "threw"
              /\ trace' = trace \o hookCalls
              /\ UNCHANGED <<archive, idx, deferred, events>>
         ELSE /\ deferred' = IF outcome = "refused"
                             THEN Rejected(deferred, RefusedEntry) ELSE deferred
              /\ events' = IF outcome = "refused" THEN events + 1 ELSE events
              /\ archive' = [archive EXCEPT !.queue =
                   @ \o hookOps \o
                   (IF InsertsByDefault(handled) THEN <<DefaultOp(Cwd, d)>> ELSE <<>>)]
              /\ trace' = trace \o hookCalls \o
                   (IF InsertsByDefault(handled)
                    THEN <<Call("file", DefaultEntryName(Cwd, d))>> ELSE <<>>)
              /\ idx' = idx + 1
              /\ pc' = LoopPc(idx + 1, Len(allFiles))
              /\ UNCHANGED thrown
  /\ UNCHANGED <<userOptions, pluginOptions, config, fs, builds, hErr, hState,
                 hReason, output, allFiles, logs, sealed, atCall>>
  /\ UNCHANGED fmtVars

\* pluginOptions.beforeClose(archive)
BeforeClose(outcome) ==
  /\ pc = "beforeClose"
  /\ pluginOptions.beforeClose = "noop" => outcome = "nothing"
  /\ IF outcome = "throw"
     THEN /\ thrown' = "HookError"
          /\ pc' = "threw"
          /\ trace' = Append(trace, Call("beforeClose", <<>>))
          /\ UNCHANGED archive
     ELSE /\ archive' = [archive EXCEPT !.queue =
               IF outcome = "append"
               THEN Append(@, Op("append", <<>>, <<"custom-file.txt">>, "beforeClose"))
               ELSE @]
          /\ trace' = trace \o <<Call("beforeClose", <<>>)>> \o
               (IF outcome = "append"
                THEN <<Call("append", <<"custom-file.txt">>)>> ELSE <<>>)
          /\ pc' = AfterBeforeClose
          /\ UNCHANGED thrown
  /\ UNCHANGED <<userOptions, pluginOptions, config, fs, builds, hErr, hState,
                 hReason, deferred, output, allFiles, idx, logs, sealed,
                 atCall, events>>
  /\ UNCHANGED fmtVars

\* archive.finalize(); return promise
Finalize ==
  /\ pc = "finalize"
  /\ archive' = [archive EXCEPT !.finalized = @ + 1]
  /\ trace' = Append(trace, Call("finalize", <<>>))
  /\ pc' = "returned"
  /\ UNCHANGED <<userOptions, pluginOptions, config, fs, builds, hErr, hState,
                 hReason, thrown, deferred, output, allFiles, idx, logs, sealed,
                 atCall, events>>
  /\ UNCHANGED fmtVars

(***************************************************************************)
(* The events that arrive once the synchronous body has run.               *)
(***************************************************************************)
\* the body of zipOutput has returned or thrown
BodyDone == pc \in {"returned", "threw"}

\* the destination stream opens its file
StreamOpen ==
  /\ BodyDone
  /\ output.state = "opening"
  /\ output' = [output EXCEPT !.state = "open"]
  /\ fs' = fs \cup {[path |-> output.path, kind |-> "file"]}
  /\ UNCHANGED <<userOptions, pluginOptions, config, builds, hErr, hState,
                 hReason, pc, thrown, deferred, archive, allFiles, idx, trace,
                 logs, sealed, atCall, events>>
  /\ UNCHANGED fmtVars

\* the destination stream fails to open its file (a missing directory, no
\* permission): the stream emits an error, for which zipOutput registers no
\* handler, and never closes
StreamOpenFails ==
  /\ BodyDone
  /\ output.state = "opening"
  /\ output' = [output EXCEPT !.state = "failed"]
  /\ UNCHANGED <<userOptions, pluginOptions, config, fs, builds, hErr, hState,
                 hReason, pc, thrown, deferred, archive, allFiles, idx, trace,
                 logs, sealed, atCall, events>>
  /\ UNCHANGED fmtVars

\* archive.on("warning")
ArchiveWarning(code) ==
  /\ BodyDone
  /\ archive.created
  /\ output.state # "closed"
  /\ events < MaxEvents
  /\ events' = events + 1
  /\ IF WarningRejects(code)
     THEN /\ deferred' = Rejected(deferred, code)
          /\ trace' = Append(trace, Call("reject", <<code>>))
          /\ UNCHANGED logs
     ELSE /\ logs' = Append(logs, [kind |-> "warning", text |-> code])
          /\ UNCHANGED <<deferred, trace>>
  /\ UNCHANGED <<userOptions, pluginOptions, config, fs, builds, hErr, hState,
                 hReason, pc, thrown, output, archive, allFiles, idx, sealed,
                 atCall>>
  /\ UNCHANGED fmtVars

\* archive.on("error")
ArchiveError(code) ==
  /\ BodyDone
  /\ archive.created
  /\ output.state # "closed"
  /\ events < MaxEvents
  /\ events' = events + 1
  /\ deferred' = Rejected(deferred, code)
  /\ trace' = Append(trace, Call("reject", <<code>>))
  /\ UNCHANGED <<userOptions, pluginOptions, config, fs, builds, hErr, hState,
                 hReason, pc, thrown, output, archive, allFiles, idx, logs,
                 sealed, atCall>>
  /\ UNCHANGED fmtVars

\* output.on("close"): the sealed archive is on disk
StreamClose ==
  /\ pc = "returned"
  /\ output.state = "open"
  /\ archive.finalized > 0
  /\ output' = [output EXCEPT !.state = "closed"]
  /\ sealed' = [path |-> output.path, names |-> SealedNames(archive.queue, fs)]
  /\ logs' = IF ~pluginOptions.silent
             THEN Append(logs, [kind |-> "summary",
                                text |-> <<pluginOptions.zipName,
                                           FormatFileSize(SizeOf(Pointer(sealed'.names)))>>])
             ELSE logs
  /\ deferred' = Resolved(deferred)
  /\ trace' = Append(trace, Call("resolve", <<>>))
  /\ UNCHANGED <<userOptions, pluginOptions, config, fs, builds, hErr, hState,
                 hReason, pc, thrown, archive, allFiles, idx, atCall, events>>
  /\ UNCHANGED fmtVars

\* await zipOutput(...) in the handler: the handler's promise follows the
\* promise zipOutput returned, or rejects with what zipOutput threw
HandlerSettle ==
  /\ hState = "pending"
  /\ \/ /\ pc = "threw"
        /\ hState' = AsyncThrow(thrown).state
        /\ hReason' = AsyncThrow(thrown).reason
     \/ /\ pc = "returned"
        /\ deferred.state \in {"resolved", "rejected"}
        /\ hState' = deferred.state
        /\ hReason' = deferred.reason
  /\ UNCHANGED <<userOptions, pluginOptions, config, fs, builds, hErr, pc,
                 thrown, deferred, output, archive, allFiles, idx, trace, logs,
                 sealed, atCall, events>>
  /\ UNCHANGED fmtVars

Next ==
  \/ \E od \in OutDirs : ConfigResolved(od)
  \/ \E error \in HostErrors : CloseBundle(error)
  \/ ZipSetup
  \/ FastPath
  \/ Enumerate
  \/ EnumerateThrows
  \/ SkipEntry
  \/ InsertEntry
  \/ HandleEntry
  \/ \E outcome \in BeforeCloseOutcomes : BeforeClose(outcome)
  \/ Finalize
  \/ StreamOpen
  \/ StreamOpenFails
  \/ \E code \in {"ENOENT", "EACCES"} : ArchiveWarning(code)
  \/ ArchiveError("EIO")
  \/ StreamClose
  \/ HandlerSettle

Spec == Init /\ [][Next]_vars

\* the steps the runtime takes by itself: the synchronous body of zipOutput
\* runs to its end, a stream that is opening opens or fails, a finalized
\* archive on an open stream closes it, and a settled await resumes
Progress ==
  \/ ZipSetup
  \/ FastPath
  \/ Enumerate
  \/ EnumerateThrows
  \/ SkipEntry
  \/ InsertEntry
  \/ HandleEntry
  \/ \E outcome \in BeforeCloseOutcomes : BeforeClose(outcome)
  \/ Finalize
  \/ StreamOpen
  \/ StreamOpenFails
  \/ StreamClose
  \/ HandlerSettle

\* the plugin under a scheduler that does not starve those steps
LiveSpec == Init /\ [][Next]_vars /\ WF_vars(Progress)

(***************************************************************************)
(* A run of formatFileSize on its own, one loop iteration per step.        *)
(***************************************************************************)
\* the limb values the inputs are drawn from
LimbChoices == {0, 1, 512, 783, 1023}

\* the byte counts the model draws from: any limbs below the top one, and
\* multiples of 1024^4 with a top limb (exact as floating-point numbers)
FmtInputs ==
  { l \in [1..6 -> LimbChoices \cup {9}] :
      /\ \A i \in 1..5 : l[i] \in LimbChoices
      /\ l[6] \in {0, 9}
      /\ l[6] # 0 => \A i \in 1..4 : l[i] = 0 }

\* a run of formatFileSize about to start, beside a plugin built with no
\* options that is never invoked
FmtInit ==
  /\ PluginInit
  /\ userOptions = [include |-> Absent, exclude |-> Absent, zipName |-> Absent,
                    silent |-> Absent, handleFile |-> Absent,
                    beforeClose |-> Absent]
  /\ fIn \in FmtInputs
  /\ fSize = [limbs |-> fIn, shift |-> 0]
  /\ fIndex = 0
  /\ fPc = "loop"
  /\ fOut = [whole |-> 0, cents |-> 0, unit |-> "none"]
  /\ fDivs = 0

\* one iteration of the while loop
FmtIterate ==
  /\ fPc = "loop"
  /\ LoopCondition(fSize, fIndex)
  /\ fSize' = DivideByBase(fSize)
  /\ fIndex' = fIndex + 1
  /\ fDivs' = fDivs + 1
  /\ UNCHANGED <<fIn, fPc, fOut>>
  /\ UNCHANGED pluginVars

\* the loop ends and the string is returned
FmtReturn ==
  /\ fPc = "loop"
  /\ ~LoopCondition(fSize, fIndex)
  /\ fOut' = Formatted(fSize, fIndex)
  /\ fPc' = "done"
  /\ UNCHANGED <<fIn, fSize, fIndex, fDivs>>
  /\ UNCHANGED pluginVars

FmtNext == FmtIterate \/ FmtReturn

FmtSpec == FmtInit /\ [][FmtNext]_vars /\ WF_vars(FmtNext)

(***************************************************************************)
(* Properties.                                                             *)
(***************************************************************************)
\* how often an operation occurs in the calls of the current invocation
Count(op) == Cardinality({ i \in DOMAIN trace : trace[i].op = op })

\* the options object with every field omitted
NoOptions ==
  [include |-> Absent, exclude |-> Absent, zipName |-> Absent,
   silent |-> Absent, handleFile |-> Absent, beforeClose |-> Absent]

\* C1: an invocation of the handler with an error value starts no assembly:
\* no call is made (no zipOutput, no handleFile, no beforeClose), no stream
\* is opened, no engine is created, the file tree stays as it was and the
\* handler's promise is resolved; an invocation without an error value
\* starts zipOutput exactly once.
C1_ErrorSkipsAssembly ==
  /\ hErr # NoError =>
       /\ trace = <<>>
       /\ pc = "none"
       /\ output = NoOutput
       /\ ~archive.created
       /\ deferred = NoDeferred
       /\ sealed = NoSealed
       /\ fs = atCall.fs
       /\ hState = "resolved"
  /\ (builds > 0 /\ hErr = NoError) => Count("zipOutput") = 1

\* a second build that failed, after a first one that wrote its archive
C1_Witness ==
  /\ hErr = "BuildError"
  /\ builds = 2
  /\ hState = "resolved"
  /\ [path |-> Root \o <<"dist", "dist.zip">>, kind |-> "file"] \in fs

\* C2: a plugin built with no options whose handler completed without error
\* has written <root>/<outDir>/dist.zip, and the archive holds every file
\* that was below <root>/<outDir> when the handler was invoked, nested ones
\* included, under the fixed top-level name followed by the file's path
\* below the output directory.
C2_DefaultArchivesOutDir ==
  (userOptions = NoOptions /\ hErr = NoError /\ hState = "resolved") =>
    LET dist == Root \o <<atCall.outDir>>
        zip == dist \o <<"dist.zip">>
    IN  /\ [path |-> zip, kind |-> "file"] \in fs
        /\ sealed.path = zip
        /\ \A f \in FilesUnder(atCall.fs, dist) :
             (<<"dist">> \o PathRelative(dist, f.path)) \in sealed.names

\* a default build of the output directory "build" completed, its nested
\* and top-level files archived
C2_Witness ==
  /\ userOptions = NoOptions
  /\ hErr = NoError
  /\ hState = "resolved"
  /\ atCall.outDir = "build"
  /\ <<"dist", "main.js">> \in sealed.names
  /\ sealed.path = Root \o <<"build", "dist.zip">>

\* the entries of the enumeration result
Enumerated == { allFiles[i] : i \in DOMAIN allFiles }

\* the positions of the archive queue that are default insertions of a file
DefaultOpsOf(path) ==
  { k \in DOMAIN archive.queue :
      /\ archive.queue[k].by = "zipOutput"
      /\ archive.queue[k].kind = "file"
      /\ archive.queue[k].src = path }

\* the positions of the archive queue that a handleFile call inserted for a file
HookOpsOf(path) ==
  { k \in DOMAIN archive.queue :
      archive.queue[k].by = "handleFile" /\ archive.queue[k].src = path }

\* the handleFile calls made for a file
HandleCallsOf(path) ==
  { i \in DOMAIN trace : trace[i].op = "handleFile" /\ trace[i].arg = path }

\* the enumeration of the current invocation has returned
HasEnumerated == Count("globSync") = 1 /\ thrown # "GlobError"

\* C3: with a non-empty exclude, given as one pattern or as a list, an entry
\* whose path matches one of the exclude patterns is never enumerated, never
\* passed to handleFile and never inserted by default, whether or not it
\* matches an include pattern; once the enumeration has returned, every
\* plain file that matches an include pattern and no exclude pattern is
\* among the selected entries.
C3_ExcludeWins ==
  pluginOptions.exclude.pats # <<>> =>
    \A e \in (fs \cup atCall.fs) :
      LET rel == SubSeq(e.path, Len(Root) + 1, Len(e.path))
          excluded == \E i \in DOMAIN pluginOptions.exclude.pats :
                        GlobMatch(pluginOptions.exclude.pats[i], rel)
          included == \E i \in DOMAIN pluginOptions.include.pats :
                        GlobMatch(pluginOptions.include.pats[i], rel)
      IN  /\ excluded =>
               /\ Dirent(e) \notin Enumerated
               /\ HandleCallsOf(e.path) = {}
               /\ DefaultOpsOf(e.path) = {}
          /\ (HasEnumerated /\ e \in atCall.fs /\ e.kind = "file"
                /\ included /\ ~excluded) => Dirent(e) \in Enumerated

\* an exclude given as one pattern string removed logo.svg, which the
\* include pattern matches, while the other files went through handleFile
C3_Witness ==
  /\ ~pluginOptions.exclude.arr
  /\ pluginOptions.exclude.pats = << <<"dist", "**", "*.svg">> >>
  /\ pluginOptions.include = Str(DistPattern)
  /\ pluginOptions.handleFile = "mixed"
  /\ pc = "returned"
  /\ HandleCallsOf(Root \o <<"dist", "app.js">>) # {}
  /\ HandleCallsOf(Root \o <<"dist", "assets", "logo.svg">>) = {}

\* the entries of the enumeration result the loop is done with
Processed == { i \in DOMAIN allFiles : i < idx }

\* C4: on the general path, for every plain file the loop has processed: if
\* handleFile is configured and returned true for it, the queue holds no
\* default insertion of it, only what the hook itself inserted (nothing, or
\* one entry under the custom name); if handleFile returned false or none is
\* configured, the queue holds exactly one default insertion of it.
C4_HandledSuppressesDefault ==
  \A i \in Processed :
    LET d == allFiles[i]
        outcome == HandleFileOutcome(pluginOptions.handleFile, d)
        handled == pluginOptions.handleFile # "null"
                     /\ outcome \in {"true", "insertTrue"}
    IN  IsFile(d) =>
          IF handled
          THEN /\ DefaultOpsOf(FilePath(d)) = {}
               /\ Cardinality(HookOpsOf(FilePath(d)))
                    = (IF outcome = "insertTrue" THEN 1 ELSE 0)
               /\ \A k \in HookOpsOf(FilePath(d)) :
                    archive.queue[k].name = <<"custom", d.name>>
          ELSE Cardinality(DefaultOpsOf(FilePath(d))) = 1

\* a body that returned after handleFile renamed app.js (handled, custom
\* entry only), dropped logo.svg (handled, no entry) and left index.html to
\* default handling
C4_Witness ==
  /\ pluginOptions.handleFile = "mixed"
  /\ pc = "returned"
  /\ DefaultOpsOf(Root \o <<"dist", "app.js">>) = {}
  /\ HookOpsOf(Root \o <<"dist", "app.js">>) # {}
  /\ HandleCallsOf(Root \o <<"dist", "assets", "logo.svg">>) # {}
  /\ DefaultOpsOf(Root \o <<"dist", "assets", "logo.svg">>) = {}
  /\ HookOpsOf(Root \o <<"dist", "assets", "logo.svg">>) = {}
  /\ Cardinality(DefaultOpsOf(Root \o <<"dist", "index.html">>)) = 1

\* C5: with handleFile configured, within one invocation the hook has been
\* called exactly once for every plain file the loop has processed, at most
\* once for the entry being processed and not at all for the entries still
\* ahead; it is never called for an entry that is not a plain file, and no
\* such entry is inserted by default.
C5_HookOncePerPlainFile ==
  pluginOptions.handleFile # "null" =>
    /\ \A i \in DOMAIN allFiles :
         LET d == allFiles[i]
             calls == Cardinality(HandleCallsOf(FilePath(d)))
         IN  IF ~IsFile(d) THEN calls = 0
             ELSE IF i < idx THEN calls = 1
             ELSE IF i = idx THEN calls <= 1
             ELSE calls = 0
    /\ \A e \in (fs \cup atCall.fs) :
         e.kind # "file" => HandleCallsOf(e.path) = {} /\ DefaultOpsOf(e.path) = {}
    /\ Count("handleFile") <= Cardinality({ d \in Enumerated : IsFile(d) })

\* the default include with a handleFile: the enumeration held a directory
\* and another non-file entry, and the hook was called for the three files
C5_Witness ==
  /\ ~userOptions.include.set
  /\ pluginOptions.handleFile = "mixed"
  /\ pc = "returned"
  /\ \E d \in Enumerated : d.kind = "dir"
  /\ \E d \in Enumerated : d.kind = "other"
  /\ Count("handleFile") = 3

\* the positions of an operation in the calls of the current invocation
Positions(op) == { i \in DOMAIN trace : trace[i].op = op }

\* the calls that put something into the archive before beforeClose
FileCalls == {"handleFile", "hookFile", "file", "directory"}

\* C6: on both paths beforeClose and archive.finalize are each called at
\* most once per invocation, and exactly once when the body returned without
\* a throw; every handleFile call and every insertion precedes beforeClose,
\* finalize follows beforeClose and what it appended, zipOutput makes no
\* archive call after finalize, and every entry beforeClose appended is in
\* the sealed archive.
C6_BeforeCloseThenFinalize ==
  /\ Cardinality(Positions("beforeClose")) <= 1
  /\ Cardinality(Positions("finalize")) <= 1
  /\ archive.finalized = Cardinality(Positions("finalize"))
  /\ pc = "returned" =>
       /\ Cardinality(Positions("beforeClose")) = 1
       /\ Cardinality(Positions("finalize")) = 1
  /\ \A i \in DOMAIN trace : \A b \in Positions("beforeClose") :
       trace[i].op \in FileCalls => i < b
  /\ \A f \in Positions("finalize") :
       /\ \E b \in Positions("beforeClose") : b < f
       /\ \A i \in DOMAIN trace :
            /\ trace[i].op \in FileCalls \cup {"beforeClose", "append"} => i < f
            /\ i > f => trace[i].op \in {"reject", "resolve"}
  /\ sealed # NoSealed =>
       \A k \in DOMAIN archive.queue :
         archive.queue[k].by = "beforeClose" => archive.queue[k].name \in sealed.names

\* a general-path assembly in which beforeClose appended content with no
\* file behind it after the files, and the sealed archive holds it
C6_Witness ==
  /\ ~IsFastPath(pluginOptions)
  /\ pc = "returned"
  /\ hState = "resolved"
  /\ Count("file") >= 2
  /\ Count("append") = 1
  /\ <<"custom-file.txt">> \in sealed.names
  /\ \A i \in Positions("file") : \A b \in Positions("beforeClose") : i < b

\* C7: every default insertion is named by the file's path relative to the
\* root directory, nesting kept (root followed by the entry name is the
\* file's path, and the file is a plain file of the tree), and two default
\* insertions never share an entry name.
C7_DefaultNameIsRootRelative ==
  LET defaults == { k \in DOMAIN archive.queue :
                      archive.queue[k].by = "zipOutput" /\ archive.queue[k].kind = "file" }
  IN  /\ \A k \in defaults :
           /\ Root \o archive.queue[k].name = archive.queue[k].src
           /\ [path |-> archive.queue[k].src, kind |-> "file"] \in atCall.fs
      /\ \A j, k \in defaults :
           j # k => archive.queue[j].name # archive.queue[k].name

\* <root>/dist/assets/logo.svg was inserted by default as dist/assets/logo.svg
\* beside a top-level file
C7_Witness ==
  /\ pc = "returned"
  /\ \E k \in DOMAIN archive.queue :
       /\ archive.queue[k].by = "zipOutput"
       /\ archive.queue[k].kind = "file"
       /\ archive.queue[k].src = Root \o <<"dist", "assets", "logo.svg">>
       /\ archive.queue[k].name = <<"dist", "assets", "logo.svg">>
  /\ \E k \in DOMAIN archive.queue :
       /\ archive.queue[k].by = "zipOutput"
       /\ archive.queue[k].name = <<"dist", "index.html">>

\* C8: with include omitted and the general path taken, the enumerated
\* candidates are exactly the entries below <root>/<outDir> that match no
\* exclude pattern, for every outDir.
C8_DefaultIncludeIsOutDir ==
  (~userOptions.include.set /\ hErr = NoError /\ ~IsFastPath(pluginOptions)
     /\ HasEnumerated) =>
    Enumerated =
      { Dirent(e) : e \in { x \in atCall.fs :
          /\ IsUnder(Root \o <<atCall.outDir>>, x.path)
          /\ ~MatchesAny(ExcludeArr(pluginOptions), PathRelative(Root, x.path)) } }

\* the same statement for the builds whose output directory is named dist
C8_HoldsForDist ==
  atCall.outDir = "dist" => C8_DefaultIncludeIsOutDir

\* an enumeration with include omitted and the output directory "build"
C8_Witness ==
  /\ ~userOptions.include.set
  /\ ~IsFastPath(pluginOptions)
  /\ HasEnumerated
  /\ atCall.outDir = "build"
  /\ pc = "returned"

\* the limbs of the inputs named in the examples
Bytes0 == <<0, 0, 0, 0, 0, 0>>
Bytes1023 == <<1023, 0, 0, 0, 0, 0>>
Bytes1024 == <<0, 1, 0, 0, 0, 0>>
Bytes1536 == <<512, 1, 0, 0, 0, 0>>
BytesOneTB == <<0, 0, 0, 0, 1, 0>>
Bytes9999TB == <<0, 0, 0, 0, 783, 9>>

\* the index of the highest non-zero limb of the input, counted from 0 (0
\* for the input 0): the largest k with n >= 1024^k
TopLimb ==
  LET nz == { i \in DOMAIN fIn : fIn[i] # 0 }
  IN  IF nz = {} THEN 0 ELSE (CHOOSE i \in nz : \A j \in nz : j <= i) - 1

\* what C9 says of a run that has returned
FmtResultOk ==
  fPc = "done" =>
    LET k == IF TopLimb > 4 THEN 4 ELSE TopLimb
    IN  /\ fOut.unit = <<"B", "KB", "MB", "GB", "TB">>[k + 1]
        /\ fIndex = k
        /\ fDivs = k
        /\ k < 4 => \A i \in DOMAIN fIn : i > k + 1 => fIn[i] = 0
        /\ fIn = Bytes0 => fOut = [whole |-> 0, cents |-> 0, unit |-> "B"]
        /\ fIn = Bytes1023 => fOut = [whole |-> 1023, cents |-> 0, unit |-> "B"]
        /\ fIn = Bytes1024 => fOut = [whole |-> 1, cents |-> 0, unit |-> "KB"]
        /\ fIn = Bytes1536 => fOut = [whole |-> 1, cents |-> 50, unit |-> "KB"]
        /\ fIn = BytesOneTB => fOut = [whole |-> 1, cents |-> 0, unit |-> "TB"]
        /\ fIn = Bytes9999TB => fOut.unit = "TB"

\* C9: formatFileSize(n) reports the unit whose index is the largest k with
\* n >= 1024^k, capped at TB (B for n = 0), so the scaled value is below 1024
\* for every unit below TB; the loop divides at most 4 times and the run
\* always returns; 0 gives "0.00 B", 1023 "1023.00 B", 1024 "1.00 KB", 1536
\* "1.50 KB", 1024^4 "1.00 TB", and 1024^4 * 9999 ends with TB.
C9_LargestUnitBelowBase ==
  /\ [](FmtResultOk /\ fDivs <= 4)
  /\ <>(fPc = "done")

\* the run on 1024^4 * 9999 has returned 9999.00 TB after four divisions
C9_Witness ==
  /\ fPc = "done"
  /\ fIn = Bytes9999TB
  /\ fDivs = 4
  /\ fOut = [whole |-> 9999, cents |-> 0, unit |-> "TB"]

\* the codes of the reject calls of the current invocation, in order
RejectCalls == { i \in DOMAIN trace : trace[i].op = "reject" }

\* the first call that settles the deferred result
FirstSettle(i) ==
  /\ trace[i].op \in {"reject", "resolve"}
  /\ \A j \in DOMAIN trace : j < i => trace[j].op \notin {"reject", "resolve"}

\* the ENOENT warnings logged in the current invocation
LoggedWarnings == { i \in DOMAIN logs : logs[i].kind = "warning" }

\* C10: an ENOENT warning is logged and calls no reject, so the deferred
\* result stays as it was and can still resolve on close; every other
\* warning and every error event calls reject with its error, which settles
\* the deferred result as rejected with that error when it is the first to
\* settle it; and the handler's promise ends as the deferred result did,
\* rejected with the same error.
C10_OnlyEnoentIsBenign ==
  /\ \A i \in RejectCalls : trace[i].arg # <<"ENOENT">>
  /\ \A i \in LoggedWarnings : logs[i].text = "ENOENT"
  /\ Cardinality(RejectCalls) + Cardinality(LoggedWarnings) = events
  /\ \A i \in DOMAIN trace :
       FirstSettle(i) =>
         IF trace[i].op = "reject"
         THEN deferred = [state |-> "rejected", reason |-> trace[i].arg[1]]
         ELSE deferred = [state |-> "resolved", reason |-> "none"]
  /\ (RejectCalls = {} /\ Count("resolve") = 0) => deferred.state \in {"none", "pending"}
  /\ (hErr = NoError /\ pc = "returned" /\ hState \in {"resolved", "rejected"}) =>
       /\ hState = deferred.state
       /\ hReason = deferred.reason

\* an assembly whose body returned, then rejected by a warning other than
\* ENOENT, the handler rejecting with that error
C10_Witness ==
  /\ pc = "returned"
  /\ LoggedWarnings = {}
  /\ \E i \in RejectCalls : trace[i].arg = <<"EACCES">>
  /\ deferred = [state |-> "rejected", reason |-> "EACCES"]
  /\ hState = "rejected"
  /\ hReason = "EACCES"

\* the completion summary lines logged in the current invocation
SummaryLines == { i \in DOMAIN logs : logs[i].kind = "summary" }

\* C11: once a fatal engine error (an error event, or a warning other than
\* ENOENT) has called reject in an assembly, no step of that assembly logs
\* the completion summary, and the deferred result is never resolved.
C11_NoSuccessAfterFatal ==
  /\ [][RejectCalls # {} =>
         Cardinality(SummaryLines') <= Cardinality(SummaryLines)]_vars
  /\ [](RejectCalls # {} => deferred.state # "resolved")

\* the part of C11 that the code keeps: after a fatal engine error the
\* deferred result is rejected and stays so, and the handler never resolves
C11_NeverResolvedAfterFatal ==
  RejectCalls # {} =>
    /\ deferred.state = "rejected"
    /\ hState # "resolved"

\* a rejected assembly whose destination stream closed afterwards, with the
\* summary in the log
C11_Witness ==
  /\ ~pluginOptions.silent
  /\ \E i \in RejectCalls : \E j \in DOMAIN trace :
       /\ i < j
       /\ trace[i].arg = <<"EIO">>
       /\ trace[j].op = "resolve"
  /\ SummaryLines # {}
  /\ output.state = "closed"
  /\ deferred.state = "rejected"

\* C12: when fs.globSync throws, zipOutput made that one enumeration call
\* and nothing after it (no handleFile, no insertion, no beforeClose, no
\* finalize, no second enumeration), nothing is queued or sealed, and the
\* handler's promise never resolves: it rejects with the error thrown.
C12_EnumerationErrorSurfaces ==
  thrown = "GlobError" =>
    /\ pc = "threw"
    /\ Count("zipOutput") = 1
    /\ Count("globSync") = 1
    /\ trace[Len(trace)].op \in {"globSync", "reject"}
    /\ \A op \in {"directory", "handleFile", "hookFile", "file", "beforeClose",
                   "append", "finalize", "resolve"} : Count(op) = 0
    /\ archive.queue = <<>>
    /\ archive.finalized = 0
    /\ sealed = NoSealed
    /\ hState \in {"pending", "rejected"}
    /\ hState = "rejected" => hReason = "GlobError"

\* a failed enumeration, the handler rejected with its error
C12_Witness ==
  /\ thrown = "GlobError"
  /\ Count("globSync") = 1
  /\ hState = "rejected"
  /\ hReason = "GlobError"

\* the configuration C13 expects for an options object
ResolvedAsStated(u, o) ==
  /\ DOMAIN o = {"include", "exclude", "zipName", "silent", "handleFile",
                 "beforeClose"}
  /\ o.include = IF u.include.set THEN u.include.v
                                  ELSE [arr |-> FALSE, pats |-> << <<"dist", "**", "*">> >>]
  /\ o.exclude = IF u.exclude.set THEN u.exclude.v ELSE [arr |-> TRUE, pats |-> <<>>]
  /\ o.zipName = IF u.zipName.set THEN u.zipName.v ELSE "dist.zip"
  /\ o.silent = IF u.silent.set THEN u.silent.v ELSE FALSE
  /\ o.handleFile = IF u.handleFile.set THEN u.handleFile.v ELSE "null"
  /\ o.beforeClose = IF u.beforeClose.set THEN u.beforeClose.v ELSE "noop"

\* C13: every options object, whichever fields it supplies, resolves to a
\* configuration with all six fields, each the supplied value or else its
\* default; the plugin's configuration is that resolution of the object it
\* was given; and no step (configResolved, an assembly, an event) changes
\* the caller's object or any field of the configuration.
C13_ResolutionIsTotalAndFrozen ==
  /\ [](\A u \in AllUserOptions : ResolvedAsStated(u, ResolveOptions(u)))
  /\ [](ResolvedAsStated(userOptions, pluginOptions))
  /\ [][userOptions' = userOptions /\ pluginOptions' = pluginOptions]_vars

\* a partial options object (exclude and beforeClose supplied, the rest
\* omitted) after configResolved calls and two builds, the second one
\* resolved
C13_Witness ==
  /\ userOptions.exclude.set
  /\ userOptions.beforeClose.set
  /\ ~userOptions.include.set
  /\ ~userOptions.zipName.set
  /\ pluginOptions.include = DefaultInclude
  /\ pluginOptions.exclude = userOptions.exclude.v
  /\ builds = 2
  /\ config = [set |-> TRUE, outDir |-> "build"]
  /\ hState = "resolved"
  /\ output.state = "closed"

\* the three conditions of C14 on the resolved configuration
FastAsStated ==
  /\ pluginOptions.include = [arr |-> FALSE, pats |-> << <<"dist", "**", "*">> >>]
  /\ pluginOptions.exclude = [arr |-> TRUE, pats |-> <<>>]
  /\ pluginOptions.handleFile = "null"

\* the body of zipOutput is past its branch
PastBranch ==
  \/ pc \in {"loop", "beforeClose", "finalize", "returned"}
  \/ pc = "threw" /\ thrown # "TypeError"

\* the plain files of the enumeration the loop has passed
PassedFiles ==
  { i \in DOMAIN allFiles : i < idx /\ allFiles[i].kind = "file" }

\* C14: an invocation of zipOutput takes one path, once.  With include the
\* string dist/ ** / *, exclude an empty list and no handleFile it makes one
\* directory-add call for <root>/<outDir> under the name "dist", no
\* enumeration, no handleFile call and no per-file insertion; in every other
\* configuration it makes one enumeration, no directory-add call, and
\* passes each enumerated plain file to handleFile or inserts it.
C14_PathDecidedOnce ==
  /\ Count("directory") + Count("globSync") <= 1
  /\ PastBranch => Count("directory") + Count("globSync") = 1
  /\ (PastBranch /\ FastAsStated) =>
       /\ Count("directory") = 1
       /\ Count("globSync") = 0
       /\ Count("handleFile") = 0
       /\ Count("file") = 0
       /\ allFiles = <<>>
       /\ archive.queue[1] = [kind |-> "directory",
                              src |-> Root \o <<atCall.outDir>>,
                              name |-> <<"dist">>, by |-> "zipOutput"]
       /\ \A i \in DOMAIN archive.queue : i > 1 => archive.queue[i].by = "beforeClose"
  /\ (PastBranch /\ ~FastAsStated) =>
       /\ Count("globSync") = 1
       /\ Count("directory") = 0
       /\ \A i \in DOMAIN archive.queue : archive.queue[i].kind # "directory"
       /\ thrown # "GlobError" =>
            \A i \in PassedFiles :
              IF pluginOptions.handleFile = "null"
              THEN \E j \in DOMAIN trace :
                     trace[j] = Call("file", PathRelative(Root, FilePath(allFiles[i])))
              ELSE \E j \in DOMAIN trace :
                     trace[j] = Call("handleFile", FilePath(allFiles[i]))

\* a fast-path assembly of the output directory build, with a beforeClose
\* hook configured, its body returned
C14_Witness ==
  /\ FastAsStated
  /\ userOptions.beforeClose.set
  /\ atCall.outDir = "build"
  /\ pc = "returned"
  /\ Count("directory") = 1
  /\ Count("globSync") = 0
  /\ Count("beforeClose") = 1

\* an assembly with include given as the one-element list of the default
\* pattern: the general path, every plain file inserted one by one
C14_GeneralPathReached ==
  /\ pluginOptions.include = [arr |-> TRUE, pats |-> << <<"dist", "**", "*">> >>]
  /\ pluginOptions.exclude = [arr |-> TRUE, pats |-> <<>>]
  /\ pluginOptions.handleFile = "null"
  /\ pc = "returned"
  /\ Count("globSync") = 1
  /\ Count("file") = 3

\* the processing calls of zipOutput and its hooks
ProcessingOps ==
  {"directory", "globSync", "handleFile", "hookFile", "file", "beforeClose",
   "append", "finalize"}

\* how many processing calls the current invocation has made
Processing == Cardinality({ i \in DOMAIN trace : trace[i].op \in ProcessingOps })

\* the deferred result is settled
Settled == deferred.state \in {"resolved", "rejected"}

\* C15: within an assembly a settled deferred result never changes again, it
\* is resolved only when the destination stream has closed, and once it is
\* rejected the assembly makes no further processing call (handleFile,
\* insertion, beforeClose, finalize).
C15_SettledOnceThenIdle ==
  /\ [][(Settled /\ builds' = builds) => deferred' = deferred]_vars
  /\ [](deferred.state = "resolved" => output.state = "closed")
  /\ [][(deferred.state = "rejected" /\ builds' = builds) =>
          Processing' = Processing]_vars

\* the part of C15 that the code keeps: settled at most once, resolved only
\* by the close event, and a close after a rejection changes nothing
C15_SettledAtMostOnce ==
  /\ [][(Settled /\ builds' = builds) => deferred' = deferred]_vars
  /\ [](deferred.state = "resolved" =>
          /\ output.state = "closed"
          /\ Count("resolve") = 1
          /\ RejectCalls = {})
  /\ [](RejectCalls # {} => deferred.state = "rejected")

\* an assembly rejected while its loop was running, which went on to call
\* handleFile again, insert, call beforeClose and finalize
C15_Witness ==
  /\ deferred.state = "rejected"
  /\ pc = "returned"
  /\ \E i \in RejectCalls :
       /\ \E j \in DOMAIN trace : j > i /\ trace[j].op = "handleFile"
       /\ \E j \in DOMAIN trace : j > i /\ trace[j].op = "file"
       /\ \E j \in DOMAIN trace : j > i /\ trace[j].op = "beforeClose"
       /\ \E j \in DOMAIN trace : j > i /\ trace[j].op = "finalize"

\* C16: an invocation with an error value is resolved at once, and every
\* pending invocation is eventually resolved or rejected.
C16_EveryInvocationSettles ==
  /\ [](hErr # NoError => hState = "resolved")
  /\ (hState = "pending") ~> (hState \in {"resolved", "rejected"})

\* the part of C16 that the code keeps: a pending invocation settles unless
\* its destination stream failed to open
C16_SettlesUnlessOpenFails ==
  /\ [](hErr # NoError => hState = "resolved")
  /\ (hState = "pending") ~>
       (hState \in {"resolved", "rejected"} \/ output.state = "failed")

\* an assembly whose body returned and whose destination failed to open:
\* nothing rejected, the promise pending, and no step left that settles it
C16_Witness ==
  /\ pc = "returned"
  /\ output.state = "failed"
  /\ deferred.state = "pending"
  /\ hState = "pending"
  /\ RejectCalls = {}
  /\ ~ENABLED Progress

\* the files an operation of the queue reads into the archive
SourcesOf(op, tree) ==
  CASE op.kind = "directory" -> { e.path : e \in FilesUnder(tree, op.src) }
    [] op.kind = "file"      -> { op.src }
    [] OTHER                 -> {}

\* the files the archive of the current assembly was made of
ArchivedSources ==
  UNION { SourcesOf(archive.queue[i], fs) : i \in DOMAIN archive.queue }

\* C17: the archive an assembly wrote at <root>/<outDir>/<zipName> was not
\* made of that file itself.
C17_ArchiveNotInItself ==
  output.state = "closed" => output.path \notin ArchivedSources

\* the part of C17 that the code keeps: an enumeration made while no file
\* exists at the destination does not select it
C17_FreshEnumerationOmitsArchive ==
  (output.state = "closed" /\ Count("globSync") = 1 /\
   [path |-> output.path, kind |-> "file"] \notin atCall.fs)
    => output.path \notin ArchivedSources

\* a second build on the general path whose enumeration selected the archive
\* the first build left in the output directory
C17_Witness ==
  /\ builds = 2
  /\ output.state = "closed"
  /\ Count("globSync") = 1
  /\ [path |-> output.path, kind |-> "file"] \in atCall.fs
  /\ \E i \in DOMAIN archive.queue :
       /\ archive.queue[i].kind = "file"
       /\ archive.queue[i].src = output.path
  /\ output.path \in ArchivedSources

====
